---- MODULE Spec2Model ----
(***************************************************************************)
(* Contract Net auction of src/ContractNet: the Supervisor's auction       *)
(* thread (run, _run_auction) interleaved with the bus client's callback   *)
(* thread (_on_message), and the Machine's callback thread interleaved     *)
(* with its job execution threads (_execute_job).                          *)
(*                                                                         *)
(* Every step of an action is one access to memory shared between two      *)
(* threads of the same agent; accesses to thread-private data are folded   *)
(* into the neighbouring step.  Time is abstract: a sleep ends at any      *)
(* moment after it began.                                                  *)
(***************************************************************************)
EXTENDS Integers, Sequences, FiniteSets

\* ------------------------------------------------------------- bounds
\* Number of jobs the Supervisor generates before the model stops it.
MaxJobs == 2
\* Largest length of the Supervisor's bid list in one auction.
MaxBids == 2

\* Number of messages a Machine handles before the model stops delivering
\* to it.
MaxDeliveries == 3

\* ------------------------------------------------------------- values
supervisor_id == "supervisor_001"
\* Two of the five job types of Supervisor.JOB_TYPES: one that both machines
\* below can perform and one that neither can.
JOB_TYPES == {"job_A", "job_D"}
\* Two of the machines the demo's launcher starts, with their capability
\* tables (job type -> execution time).
Machines == {"machine_001", "machine_003"}
capabilities ==
    [m \in Machines |->
        IF m = "machine_001"
        THEN [job_A |-> 3, job_B |-> 5, job_C |-> 7]
        ELSE [job_A |-> 6, job_C |-> 3, job_E |-> 4]]
\* Proposed durations and submission timestamps a bid may carry.
ProposedTimes == {3, 6}
Timestamps == {1, 2}
\* Python's None for Optional[Job]: job ids of real jobs start at 1.
None == [job_id |-> 0, job_type |-> "None"]

VARIABLES
    \* Supervisor fields
    current_job,        \* self.current_job
    bids,               \* self.bids, in arrival order
    collecting_bids,    \* self.collecting_bids
    jobs_created, jobs_allocated, jobs_failed,
    running,            \* self.running
    \* auction thread: position, and the locals job and winner of _run_auction
    sup_pc, job, winner,
    \* bus callback thread of the Supervisor: position and the message or
    \* the Bid object it holds
    cb_pc, cb_msg, cb_bid,
    \* the messages the Supervisor published since _run_auction was last
    \* entered, in order
    sup_published,
    \* history: the bid list at the moment collecting_bids was set to False,
    \* and the bid list _select_winner read
    bids_at_deadline, bids_at_select,
    \* Machine fields, one value per machine id
    busy,               \* self.busy
    m_current_job,      \* self.current_job (a job id, 0 for None)
    jobs_bid, jobs_won, jobs_completed, jobs_rejected,
    \* callback thread of each Machine: position in _handle_award and the
    \* award it is handling
    mcb_pc, mcb_msg,
    \* the _execute_job threads of each Machine that have not returned
    executions,
    \* every message each Machine published, in order
    m_published,
    \* the broker: whether it holds the Supervisor's subscription to its bid
    \* topic and each Machine's subscriptions, made in _on_connect and gone
    \* with the connection; and the awards it has accepted from the
    \* Supervisor and not yet handed to the Machine
    sup_subscribed, m_subscribed, award_bus,
    \* history: the id of the last job during whose bid collection the
    \* Supervisor's connection was lost, 0 for none
    lost_in

supVars == <<current_job, bids, collecting_bids, jobs_created, jobs_allocated,
             jobs_failed, running, sup_pc, job, winner, cb_pc, cb_msg, cb_bid,
             sup_published, bids_at_deadline, bids_at_select>>

machVars == <<busy, m_current_job, jobs_bid, jobs_won, jobs_completed,
              jobs_rejected, mcb_pc, mcb_msg, executions, m_published>>

linkVars == <<sup_subscribed, m_subscribed, award_bus, lost_in>>

vars == <<supVars, machVars, linkVars>>

\* ------------------------------------------------------------ messages
\* A message on the bus: the topic it is published to and its payload.
Publish(topic, payload) == [topic |-> topic, payload |-> payload]

\* Bid payloads of Machine._send_bid for the job ids ids.
BidPayloads(ids) ==
    [type : {"bid"}, machine_id : Machines, job_id : ids,
     proposed_time : ProposedTimes, timestamp : Timestamps]

\* Rejection payloads of Machine._send_rejection for the job ids ids.
RejectionPayloads(ids) ==
    [type : {"rejection"}, machine_id : Machines, job_id : ids,
     reason : {"Machine is busy"}]

\* What can arrive on jobs/bid/<supervisor_id> once n jobs were created:
\* replies to any CFP sent so far, or to no CFP at all (job id 0).
Inbound(n) == BidPayloads(0..n) \cup RejectionPayloads(0..n)

\* Payloads that are not a JSON object: bytes json.loads cannot parse, and
\* the JSON text of a list.
NotJson == [raw |-> "not json"]
JsonList == [raw |-> "[1, 2]"]

\* json.loads(msg.payload.decode()): what a payload parses to.
Loads(payload) ==
    IF "raw" \notin DOMAIN payload THEN "dict"
    ELSE IF payload = NotJson THEN "JSONDecodeError"
    ELSE "list"

\* Replies on jobs/bid/<supervisor_id> outside the Bid and Rejection schemas,
\* for the job ids ids: not JSON, not an object, a Bid without its
\* machine_id, a Bid without its proposed_time, a Bid without its type and a
\* Bid of an unknown type.
OutOfSchemaPayloads(ids) ==
    {NotJson, JsonList}
    \cup [type : {"bid"}, job_id : ids, proposed_time : {3}, timestamp : {1}]
    \cup [type : {"bid"}, machine_id : {"machine_001"}, job_id : ids,
          timestamp : {1}]
    \cup [machine_id : {"machine_001"}, job_id : ids, proposed_time : {3},
          timestamp : {1}]
    \cup [type : {"offer"}, machine_id : {"machine_001"}, job_id : ids,
          proposed_time : {3}, timestamp : {1}]

\* No Bid held by the callback thread, and no winner.
NoBid == [machine_id |-> "None", job_id |-> 0, proposed_time |-> 0, timestamp |-> 0]
NoMsg == [type |-> "None"]

\* ---------------------------------------------------------------- Init
SupInit ==
    /\ current_job = None
    /\ bids = <<>>
    /\ collecting_bids = FALSE
    /\ jobs_created = 0
    /\ jobs_allocated = 0
    /\ jobs_failed = 0
    /\ running = TRUE
    /\ sup_pc = "new"
    /\ job = None
    /\ winner = NoBid
    /\ cb_pc = "idle"
    /\ cb_msg = NoMsg
    /\ cb_bid = NoBid
    /\ sup_published = <<>>
    /\ bids_at_deadline = <<>>
    /\ bids_at_select = <<>>

MachInit ==
    /\ busy = [m \in Machines |-> FALSE]
    /\ m_current_job = [m \in Machines |-> 0]
    /\ jobs_bid = [m \in Machines |-> 0]
    /\ jobs_won = [m \in Machines |-> 0]
    /\ jobs_completed = [m \in Machines |-> 0]
    /\ jobs_rejected = [m \in Machines |-> 0]
    /\ mcb_pc = [m \in Machines |-> "idle"]
    /\ mcb_msg = [m \in Machines |-> NoMsg]
    /\ executions = [m \in Machines |-> {}]
    /\ m_published = [m \in Machines |-> <<>>]

\* No client has connected yet.
LinkInit ==
    /\ sup_subscribed = FALSE
    /\ m_subscribed = [m \in Machines |-> FALSE]
    /\ award_bus = {}
    /\ lost_in = 0

Init == SupInit /\ MachInit /\ LinkInit

\* ------------------------------------------- Supervisor: auction thread
\* run(): connect, loop_start; from here on the callback thread is alive.
SupRun ==
    /\ sup_pc = "new"
    /\ sup_pc' = "loop"
    /\ UNCHANGED <<current_job, bids, collecting_bids, jobs_created,
                   jobs_allocated, jobs_failed, running, job, winner, cb_pc,
                   cb_msg, cb_bid, sup_published, bids_at_deadline,
                   bids_at_select>>
    /\ UNCHANGED <<machVars, linkVars>>

\* GenerateJob as an interval timer would run it: the next job is generated
\* when the interval fires, also while the previous auction still waits for
\* its deadline.
GenerateJobOnTimer ==
    /\ sup_pc \in {"loop", "wait_deadline"}
    /\ running
    /\ jobs_created < MaxJobs
    /\ \E jt \in JOB_TYPES :
         job' = [job_id |-> jobs_created + 1, job_type |-> jt]
    /\ jobs_created' = jobs_created + 1
    /\ sup_pc' = "set_job"
    /\ UNCHANGED <<current_job, bids, collecting_bids, jobs_allocated,
                   jobs_failed, running, winner, cb_pc, cb_msg, cb_bid,
                   sup_published, bids_at_deadline, bids_at_select>>
    /\ UNCHANGED <<machVars, linkVars>>

\* while self.running: job = self._generate_job()
GenerateJob ==
    /\ sup_pc = "loop"
    /\ running
    /\ jobs_created < MaxJobs
    /\ \E jt \in JOB_TYPES :
         job' = [job_id |-> jobs_created + 1, job_type |-> jt]
    /\ jobs_created' = jobs_created + 1
    /\ sup_pc' = "set_job"
    /\ UNCHANGED <<current_job, bids, collecting_bids, jobs_allocated,
                   jobs_failed, running, winner, cb_pc, cb_msg, cb_bid,
                   sup_published, bids_at_deadline, bids_at_select>>
    /\ UNCHANGED <<machVars, linkVars>>

\* _run_auction: self.current_job = job
SetCurrentJob ==
    /\ sup_pc = "set_job"
    /\ current_job' = job
    /\ sup_pc' = "reset_bids"
    /\ UNCHANGED <<bids, collecting_bids, jobs_created, jobs_allocated,
                   jobs_failed, running, job, winner, cb_pc, cb_msg, cb_bid,
                   sup_published, bids_at_deadline, bids_at_select>>
    /\ UNCHANGED <<machVars, linkVars>>

\* _run_auction: self.bids = []
ResetBids ==
    /\ sup_pc = "reset_bids"
    /\ bids' = <<>>
    /\ sup_pc' = "open"
    /\ UNCHANGED <<current_job, collecting_bids, jobs_created, jobs_allocated,
                   jobs_failed, running, job, winner, cb_pc, cb_msg, cb_bid,
                   sup_published, bids_at_deadline, bids_at_select>>
    /\ UNCHANGED <<machVars, linkVars>>

\* _run_auction: self.collecting_bids = True
OpenCollection ==
    /\ sup_pc = "open"
    /\ collecting_bids' = TRUE
    /\ sup_pc' = "send_cfp"
    /\ UNCHANGED <<current_job, bids, jobs_created, jobs_allocated,
                   jobs_failed, running, job, winner, cb_pc, cb_msg, cb_bid,
                   sup_published, bids_at_deadline, bids_at_select>>
    /\ UNCHANGED <<machVars, linkVars>>

\* The CFP payload of _send_cfp.
Cfp(j) ==
    [type |-> "cfp", supervisor_id |-> supervisor_id, job_id |-> j.job_id,
     job_type |-> j.job_type]

\* _send_cfp(job), then the auction thread sleeps for the deadline.
SendCfp ==
    /\ sup_pc = "send_cfp"
    /\ sup_published' = Append(sup_published, Publish(<<"jobs/cfp">>, Cfp(job)))
    /\ sup_pc' = "wait_deadline"
    /\ UNCHANGED <<current_job, bids, collecting_bids, jobs_created,
                   jobs_allocated, jobs_failed, running, job, winner, cb_pc,
                   cb_msg, cb_bid, bids_at_deadline, bids_at_select>>
    /\ UNCHANGED <<machVars, linkVars>>

\* CloseCollection as a collection that ends on the first Bid would run it:
\* the auction thread waits until the bid list is not empty.
CloseCollectionOnBid ==
    /\ sup_pc = "wait_deadline"
    /\ bids # <<>>
    /\ collecting_bids' = FALSE
    /\ bids_at_deadline' = bids
    /\ sup_pc' = "select"
    /\ UNCHANGED <<current_job, bids, jobs_created, jobs_allocated,
                   jobs_failed, running, job, winner, cb_pc, cb_msg, cb_bid,
                   sup_published, bids_at_select>>
    /\ UNCHANGED <<machVars, linkVars>>

\* CloseCollection as an auction thread that left collection open at the
\* deadline would run it.
CloseCollectionLeftOpen ==
    /\ sup_pc = "wait_deadline"
    /\ bids_at_deadline' = bids
    /\ sup_pc' = "select"
    /\ UNCHANGED <<current_job, bids, collecting_bids, jobs_created,
                   jobs_allocated, jobs_failed, running, job, winner, cb_pc,
                   cb_msg, cb_bid, sup_published, bids_at_select>>
    /\ UNCHANGED <<machVars, linkVars>>

\* time.sleep(self.deadline) returns; self.collecting_bids = False
CloseCollection ==
    /\ sup_pc = "wait_deadline"
    /\ collecting_bids' = FALSE
    /\ bids_at_deadline' = bids
    /\ sup_pc' = "select"
    /\ UNCHANGED <<current_job, bids, jobs_created, jobs_allocated,
                   jobs_failed, running, job, winner, cb_pc, cb_msg, cb_bid,
                   sup_published, bids_at_select>>
    /\ UNCHANGED <<machVars, linkVars>>

\* min(self.bids, key=lambda b: b.proposed_time) from position i on: Python's
\* min scans left to right and replaces the best only by a strictly smaller key.
RECURSIVE MinByProposedTime(_, _, _)
MinByProposedTime(bs, i, best) ==
    IF i > Len(bs) THEN best
    ELSE MinByProposedTime(bs, i + 1,
             IF bs[i].proposed_time < best.proposed_time THEN bs[i] ELSE best)

\* The Bid that entered the list first, None (NoBid) for an empty list.
first_bid(bs) ==
    IF bs = <<>> THEN NoBid ELSE bs[1]

\* _select_winner: None (NoBid) for an empty list, else the minimum.
select_winner(bs) ==
    IF bs = <<>> THEN NoBid ELSE MinByProposedTime(bs, 2, bs[1])

\* winner = self._select_winner(), under bid_lock
SelectWinner ==
    /\ sup_pc = "select"
    /\ winner' = select_winner(bids)
    /\ bids_at_select' = bids
    /\ sup_pc' = IF select_winner(bids) = NoBid THEN "failed" ELSE "award"
    /\ UNCHANGED <<current_job, bids, collecting_bids, jobs_created,
                   jobs_allocated, jobs_failed, running, job, cb_pc, cb_msg,
                   cb_bid, sup_published, bids_at_deadline>>
    /\ UNCHANGED <<machVars, linkVars>>

\* The award payload of _send_award.
Award(w, j) ==
    [type |-> "award", supervisor_id |-> supervisor_id, job_id |-> j.job_id,
     job_type |-> j.job_type, machine_id |-> w.machine_id]

\* The reject payload of _send_award.
Reject(j) ==
    [type |-> "reject", supervisor_id |-> supervisor_id, job_id |-> j.job_id,
     reason |-> "Another machine was selected"]

\* _send_award, first half: publish the award on the winner's award topic.
PublishAward ==
    /\ sup_pc = "award"
    /\ sup_published' = Append(sup_published,
           Publish(<<"jobs/award", winner.machine_id>>, Award(winner, job)))
    /\ sup_pc' = "rejects"
    /\ UNCHANGED <<current_job, bids, collecting_bids, jobs_created,
                   jobs_allocated, jobs_failed, running, job, winner, cb_pc,
                   cb_msg, cb_bid, bids_at_deadline, bids_at_select>>
    /\ UNCHANGED <<machVars, linkVars>>

\* The bids of bs that lost on proposed_time: those strictly slower than w.
SlowerBids(bs, w) == SelectSeq(bs, LAMBDA b : b.proposed_time > w.proposed_time)

\* OtherBids as a loop without the test of the machine id would read the
\* list: every Bid that is not the winning Bid itself.
BidsButWinning(bs, w) == SelectSeq(bs, LAMBDA b : b # w)

\* The bids of bs whose machine is not the winner's, in list order.
OtherBids(bs, w) == SelectSeq(bs, LAMBDA b : b.machine_id # w.machine_id)

\* The rejections of _send_award's loop: one per bid of another machine.
Rejections(bs, w, j) ==
    [i \in 1..Len(OtherBids(bs, w)) |->
        Publish(<<"jobs/reject", OtherBids(bs, w)[i].machine_id>>, Reject(j))]

\* _send_award, second half, under bid_lock: the loop over self.bids; then
\* self.jobs_allocated += 1 back in _run_auction.
PublishRejections ==
    /\ sup_pc = "rejects"
    /\ sup_published' = sup_published \o Rejections(bids, winner, job)
    /\ jobs_allocated' = jobs_allocated + 1
    /\ sup_pc' = "clear_job"
    /\ UNCHANGED <<current_job, bids, collecting_bids, jobs_created,
                   jobs_failed, running, job, winner, cb_pc, cb_msg, cb_bid,
                   bids_at_deadline, bids_at_select>>
    /\ UNCHANGED <<machVars, linkVars>>

\* CountFailed as a conclusion that counted every concluded auction as
\* allocated would run it.
CountConcluded ==
    /\ sup_pc = "failed"
    /\ jobs_allocated' = jobs_allocated + 1
    /\ sup_pc' = "clear_job"
    /\ UNCHANGED <<current_job, bids, collecting_bids, jobs_created,
                   jobs_failed, running, job, winner, cb_pc, cb_msg,
                   cb_bid, sup_published, bids_at_deadline, bids_at_select>>
    /\ UNCHANGED <<machVars, linkVars>>

\* No winner: self.jobs_failed += 1
CountFailed ==
    /\ sup_pc = "failed"
    /\ jobs_failed' = jobs_failed + 1
    /\ sup_pc' = "clear_job"
    /\ UNCHANGED <<current_job, bids, collecting_bids, jobs_created,
                   jobs_allocated, running, job, winner, cb_pc, cb_msg,
                   cb_bid, sup_published, bids_at_deadline, bids_at_select>>
    /\ UNCHANGED <<machVars, linkVars>>

\* _run_auction: self.current_job = None, and the function returns: its
\* locals job and winner are gone (as is the history kept for the auction);
\* run() then sleeps job_interval.
ClearCurrentJob ==
    /\ sup_pc = "clear_job"
    /\ current_job' = None
    /\ sup_pc' = "wait_interval"
    /\ job' = None
    /\ winner' = NoBid
    /\ bids_at_deadline' = <<>>
    /\ bids_at_select' = <<>>
    /\ sup_published' = <<>>
    /\ UNCHANGED <<bids, collecting_bids, jobs_created, jobs_allocated,
                   jobs_failed, running, cb_pc, cb_msg, cb_bid>>
    /\ UNCHANGED <<machVars, linkVars>>

\* time.sleep(self.job_interval) returns: back to the loop test.
IntervalElapses ==
    /\ sup_pc = "wait_interval"
    /\ sup_pc' = "loop"
    /\ UNCHANGED <<current_job, bids, collecting_bids, jobs_created,
                   jobs_allocated, jobs_failed, running, job, winner, cb_pc,
                   cb_msg, cb_bid, sup_published, bids_at_deadline,
                   bids_at_select>>
    /\ UNCHANGED <<machVars, linkVars>>

\* The loop test fails: finally-block of run(); loop_stop() joins the
\* callback thread, so a callback in progress ends first.
LoopExit ==
    /\ sup_pc = "loop"
    /\ ~running
    /\ cb_pc \in {"idle", "fault"}
    /\ sup_pc' = "stopped"
    /\ UNCHANGED <<current_job, bids, collecting_bids, jobs_created,
                   jobs_allocated, jobs_failed, running, job, winner, cb_pc,
                   cb_msg, cb_bid, sup_published, bids_at_deadline,
                   bids_at_select>>
    /\ UNCHANGED <<machVars, linkVars>>

\* Supervisor.stop()
SupStop ==
    /\ running
    /\ running' = FALSE
    /\ UNCHANGED <<current_job, bids, collecting_bids, jobs_created,
                   jobs_allocated, jobs_failed, sup_pc, job, winner, cb_pc,
                   cb_msg, cb_bid, sup_published, bids_at_deadline,
                   bids_at_select>>
    /\ UNCHANGED <<machVars, linkVars>>

\* ------------------------------------------ Supervisor: callback thread
\* _on_message, entry: the unlocked test of self.collecting_bids.
OnMessage(msg) ==
    /\ cb_pc = "idle"
    /\ sup_pc \notin {"new", "stopped"}
    /\ Len(bids) < MaxBids
    /\ IF collecting_bids
         THEN cb_pc' = "parse" /\ cb_msg' = msg
         ELSE UNCHANGED <<cb_pc, cb_msg>>
    /\ UNCHANGED <<current_job, bids, collecting_bids, jobs_created,
                   jobs_allocated, jobs_failed, running, sup_pc, job, winner,
                   cb_bid, sup_published, bids_at_deadline, bids_at_select>>
    /\ UNCHANGED <<machVars, linkVars>>

\* Bid(machine_id=..., job_id=..., proposed_time=..., timestamp=...)
Bid(data) ==
    [machine_id |-> data.machine_id, job_id |-> data.job_id,
     proposed_time |-> data.proposed_time, timestamp |-> data.timestamp]

\* OnMessageParse as a handler without the test of the message type would
\* run it, a missing proposed_time or timestamp read as 0: every reply with
\* the current job id becomes a Bid.
OnMessageParseAnyType ==
    /\ cb_pc = "parse"
    /\ cb_msg' = NoMsg
    /\ IF current_job = None
         THEN cb_pc' = "fault" /\ cb_bid' = NoBid
         ELSE IF cb_msg.job_id # current_job.job_id
         THEN cb_pc' = "idle" /\ cb_bid' = NoBid
         ELSE /\ cb_pc' = "append"
              /\ cb_bid' = [machine_id |-> cb_msg.machine_id,
                            job_id |-> cb_msg.job_id,
                            proposed_time |->
                                IF cb_msg.type = "bid"
                                THEN cb_msg.proposed_time ELSE 0,
                            timestamp |->
                                IF cb_msg.type = "bid"
                                THEN cb_msg.timestamp ELSE 0]
    /\ UNCHANGED <<current_job, bids, collecting_bids, jobs_created,
                   jobs_allocated, jobs_failed, running, sup_pc, job, winner,
                   sup_published, bids_at_deadline, bids_at_select>>
    /\ UNCHANGED <<machVars, linkVars>>

\* _on_message, the try block up to the Bid object.  json.loads raises
\* JSONDecodeError, which is caught.  data.get on a value that is no dict, and
\* the read of .job_id with self.current_job None, raise AttributeError, which
\* the except clause (JSONDecodeError, KeyError) does not catch.  data.get of
\* an absent key gives None, data[...] of an absent key raises KeyError,
\* which is caught.
OnMessageParse ==
    /\ cb_pc = "parse"
    /\ cb_msg' = NoMsg
    /\ IF Loads(cb_msg) = "JSONDecodeError"
         THEN cb_pc' = "idle" /\ cb_bid' = NoBid
         ELSE IF Loads(cb_msg) # "dict" \/ current_job = None
         THEN cb_pc' = "fault" /\ cb_bid' = NoBid
         ELSE IF \/ "job_id" \notin DOMAIN cb_msg
                 \/ cb_msg.job_id # current_job.job_id
         THEN cb_pc' = "idle" /\ cb_bid' = NoBid
         ELSE IF "type" \in DOMAIN cb_msg /\ cb_msg.type = "rejection"
         THEN cb_pc' = "idle" /\ cb_bid' = NoBid
         ELSE IF {"machine_id", "proposed_time"} \ DOMAIN cb_msg # {}
         THEN cb_pc' = "idle" /\ cb_bid' = NoBid
         ELSE cb_pc' = "append" /\ cb_bid' = Bid(cb_msg)
    /\ UNCHANGED <<current_job, bids, collecting_bids, jobs_created,
                   jobs_allocated, jobs_failed, running, sup_pc, job, winner,
                   sup_published, bids_at_deadline, bids_at_select>>
    /\ UNCHANGED <<machVars, linkVars>>

\* with self.bid_lock: self.bids.append(bid)
OnMessageAppend ==
    /\ cb_pc = "append"
    /\ bids' = Append(bids, cb_bid)
    /\ cb_pc' = "idle"
    /\ cb_bid' = NoBid
    /\ UNCHANGED <<current_job, collecting_bids, jobs_created, jobs_allocated,
                   jobs_failed, running, sup_pc, job, winner, cb_msg,
                   sup_published, bids_at_deadline, bids_at_select>>
    /\ UNCHANGED <<machVars, linkVars>>

\* ---------------------------------------------- Machine: callback thread
\* The job ids a message to a Machine may name: one job and another.
JobIds == {1, 2}

\* What the bus can hand to Machine._on_message.
CfpPayloads ==
    [type : {"cfp"}, supervisor_id : {supervisor_id}, job_id : JobIds,
     job_type : JOB_TYPES]
AwardPayloads ==
    [type : {"award"}, supervisor_id : {supervisor_id}, job_id : JobIds,
     job_type : JOB_TYPES, machine_id : Machines]
RejectPayloads ==
    [type : {"reject"}, supervisor_id : {supervisor_id}, job_id : JobIds,
     reason : {"Another machine was selected"}]

\* The bid payload of _send_bid.
BidOf(m, job_id, execution_time, ts) ==
    [type |-> "bid", machine_id |-> m, job_id |-> job_id,
     proposed_time |-> execution_time, timestamp |-> ts]

\* The rejection payload of _send_rejection.
RejectionOf(m, job_id, reason) ==
    [type |-> "rejection", machine_id |-> m, job_id |-> job_id,
     reason |-> reason]

\* f"Cannot perform {job_type}"
CannotPerform(job_type) ==
    IF job_type = "job_A" THEN "Cannot perform job_A" ELSE "Cannot perform job_D"

\* HandleCfp as a handler without the test of self.busy would run it.
HandleCfpWhateverBusy(m, data) ==
    /\ mcb_pc[m] = "idle"
    /\ IF data.job_type \notin DOMAIN capabilities[m]
         THEN /\ m_published' = [m_published EXCEPT ![m] = Append(@,
                    Publish(<<"jobs/bid", data.supervisor_id>>,
                            RejectionOf(m, data.job_id,
                                        CannotPerform(data.job_type))))]
              /\ UNCHANGED jobs_bid
         ELSE /\ \E now \in Timestamps :
                   m_published' = [m_published EXCEPT ![m] = Append(@,
                       Publish(<<"jobs/bid", data.supervisor_id>>,
                               BidOf(m, data.job_id,
                                     capabilities[m][data.job_type], now)))]
              /\ jobs_bid' = [jobs_bid EXCEPT ![m] = @ + 1]
    /\ UNCHANGED <<busy, m_current_job, jobs_won, jobs_completed,
                   jobs_rejected, mcb_pc, mcb_msg, executions>>
    /\ UNCHANGED supVars

\* _on_message with a cfp: _handle_cfp, which reads self.busy once and
\* publishes one reply on jobs/bid/<supervisor_id>.
HandleCfp(m, data) ==
    /\ mcb_pc[m] = "idle"
    /\ IF busy[m]
         THEN /\ m_published' = [m_published EXCEPT ![m] = Append(@,
                    Publish(<<"jobs/bid", data.supervisor_id>>,
                            RejectionOf(m, data.job_id, "Machine is busy")))]
              /\ UNCHANGED jobs_bid
         ELSE IF data.job_type \notin DOMAIN capabilities[m]
         THEN /\ m_published' = [m_published EXCEPT ![m] = Append(@,
                    Publish(<<"jobs/bid", data.supervisor_id>>,
                            RejectionOf(m, data.job_id,
                                        CannotPerform(data.job_type))))]
              /\ UNCHANGED jobs_bid
         ELSE /\ \E now \in Timestamps :
                   m_published' = [m_published EXCEPT ![m] = Append(@,
                       Publish(<<"jobs/bid", data.supervisor_id>>,
                               BidOf(m, data.job_id,
                                     capabilities[m][data.job_type], now)))]
              /\ jobs_bid' = [jobs_bid EXCEPT ![m] = @ + 1]
    /\ UNCHANGED <<busy, m_current_job, jobs_won, jobs_completed,
                   jobs_rejected, mcb_pc, mcb_msg, executions>>
    /\ UNCHANGED supVars

\* _on_message with an award: _handle_award up to self.busy = True.
HandleAward(m, data) ==
    /\ mcb_pc[m] = "idle"
    /\ IF data.machine_id # m
         THEN UNCHANGED <<jobs_won, busy, mcb_pc, mcb_msg>>
         ELSE /\ jobs_won' = [jobs_won EXCEPT ![m] = @ + 1]
              /\ busy' = [busy EXCEPT ![m] = TRUE]
              /\ mcb_pc' = [mcb_pc EXCEPT ![m] = "set_job"]
              /\ mcb_msg' = [mcb_msg EXCEPT ![m] = data]
    /\ UNCHANGED <<m_current_job, jobs_bid, jobs_completed, jobs_rejected,
                   executions, m_published>>
    /\ UNCHANGED supVars

\* self.capabilities.get(job_type, 5.0)
ExecutionTime(m, job_type) ==
    IF job_type \in DOMAIN capabilities[m] THEN capabilities[m][job_type] ELSE 5

\* _handle_award, the rest: self.current_job = job_id, then the thread
\* running _execute_job is started; it sleeps for execution_time.
HandleAwardStart(m) ==
    /\ mcb_pc[m] = "set_job"
    /\ m_current_job' = [m_current_job EXCEPT ![m] = mcb_msg[m].job_id]
    /\ executions' = [executions EXCEPT ![m] = @ \cup
           {[tid |-> jobs_won[m], job_id |-> mcb_msg[m].job_id,
             job_type |-> mcb_msg[m].job_type,
             execution_time |-> ExecutionTime(m, mcb_msg[m].job_type),
             pc |-> "sleep", loaded |-> 0]}]
    /\ mcb_pc' = [mcb_pc EXCEPT ![m] = "idle"]
    /\ mcb_msg' = [mcb_msg EXCEPT ![m] = NoMsg]
    /\ UNCHANGED <<busy, jobs_bid, jobs_won, jobs_completed, jobs_rejected,
                   m_published>>
    /\ UNCHANGED supVars

\* HandleReject as a handler that took a reject as the end of the Machine's
\* engagement would run it: the Machine is freed for the next CFP.
HandleRejectFreesMachine(m, data) ==
    /\ mcb_pc[m] = "idle"
    /\ jobs_rejected' = [jobs_rejected EXCEPT ![m] = @ + 1]
    /\ busy' = [busy EXCEPT ![m] = FALSE]
    /\ m_current_job' = [m_current_job EXCEPT ![m] = 0]
    /\ UNCHANGED <<jobs_bid, jobs_won, jobs_completed, mcb_pc, mcb_msg,
                   executions, m_published>>
    /\ UNCHANGED supVars

\* _on_message with a reject: _handle_reject.
HandleReject(m, data) ==
    /\ mcb_pc[m] = "idle"
    /\ jobs_rejected' = [jobs_rejected EXCEPT ![m] = @ + 1]
    /\ UNCHANGED <<busy, m_current_job, jobs_bid, jobs_won, jobs_completed,
                   mcb_pc, mcb_msg, executions, m_published>>
    /\ UNCHANGED supVars

\* _on_message with a payload that is no cfp, award or reject.  json.loads
\* raises JSONDecodeError, which is caught; data.get on a value that is no
\* dict raises AttributeError, which the except clause (JSONDecodeError) does
\* not catch; a dict of any other type, or of none, matches no branch.
HandleOther(m, data) ==
    /\ mcb_pc[m] = "idle"
    /\ mcb_pc' = [mcb_pc EXCEPT ![m] =
           IF Loads(data) = "list" THEN "fault" ELSE @]
    /\ UNCHANGED <<busy, m_current_job, jobs_bid, jobs_won, jobs_completed,
                   jobs_rejected, mcb_msg, executions, m_published>>
    /\ UNCHANGED supVars

\* --------------------------------------------- Machine: execution threads
\* Thread t of machine m moves to position pc, having loaded the value v of
\* jobs_completed.
Moved(m, t, pc, v) ==
    [executions EXCEPT ![m] = (@ \ {t}) \cup {[t EXCEPT !.pc = pc, !.loaded = v]}]

\* _execute_job: time.sleep(execution_time) returns; self.busy = False
ExecuteJobEnds(m, t) ==
    /\ t.pc = "sleep"
    /\ busy' = [busy EXCEPT ![m] = FALSE]
    /\ executions' = Moved(m, t, "clear_job", 0)
    /\ UNCHANGED <<m_current_job, jobs_bid, jobs_won, jobs_completed,
                   jobs_rejected, mcb_pc, mcb_msg, m_published>>
    /\ UNCHANGED supVars

\* _execute_job: self.current_job = None
ExecuteJobClear(m, t) ==
    /\ t.pc = "clear_job"
    /\ m_current_job' = [m_current_job EXCEPT ![m] = 0]
    /\ executions' = Moved(m, t, "load", 0)
    /\ UNCHANGED <<busy, jobs_bid, jobs_won, jobs_completed, jobs_rejected,
                   mcb_pc, mcb_msg, m_published>>
    /\ UNCHANGED supVars

\* _execute_job: self.jobs_completed += 1, the load of the old value
ExecuteJobLoad(m, t) ==
    /\ t.pc = "load"
    /\ executions' = Moved(m, t, "store", jobs_completed[m])
    /\ UNCHANGED <<busy, m_current_job, jobs_bid, jobs_won, jobs_completed,
                   jobs_rejected, mcb_pc, mcb_msg, m_published>>
    /\ UNCHANGED supVars

\* The completion payload of _execute_job.
Completion(m, t) ==
    [type |-> "completion", machine_id |-> m, job_id |-> t.job_id,
     job_type |-> t.job_type, execution_time |-> t.execution_time]

\* _execute_job: self.jobs_completed += 1, the store; then the completion
\* notice is published and the thread returns.
ExecuteJobStore(m, t) ==
    /\ t.pc = "store"
    /\ jobs_completed' = [jobs_completed EXCEPT ![m] = t.loaded + 1]
    /\ m_published' = [m_published EXCEPT ![m] = Append(@,
           Publish(<<"jobs/complete", supervisor_id>>, Completion(m, t)))]
    /\ executions' = [executions EXCEPT ![m] = @ \ {t}]
    /\ UNCHANGED <<busy, m_current_job, jobs_bid, jobs_won, jobs_rejected,
                   mcb_pc, mcb_msg>>
    /\ UNCHANGED supVars

\* --------------------------------------------------------- connections
\* SupOnConnect as a callback that started the agent afresh on every
\* connect would run it: collection is closed and the bid list emptied.
SupOnConnectResets ==
    /\ sup_pc \notin {"new", "stopped"}
    /\ cb_pc = "idle"
    /\ ~sup_subscribed
    /\ \E reason_code \in {0, 5} : sup_subscribed' = (reason_code = 0)
    /\ collecting_bids' = FALSE
    /\ bids' = <<>>
    /\ UNCHANGED <<current_job, jobs_created, jobs_allocated, jobs_failed,
                   running, sup_pc, job, winner, cb_pc, cb_msg, cb_bid,
                   sup_published, bids_at_deadline, bids_at_select>>
    /\ UNCHANGED <<m_subscribed, award_bus, lost_in>>
    /\ UNCHANGED machVars

\* Supervisor._on_connect, run by the client's network thread after the
\* connect of run() and after every reconnect of the client's loop: with
\* reason_code 0 it subscribes bid_topic; it writes no field.
SupOnConnect ==
    /\ sup_pc \notin {"new", "stopped"}
    /\ cb_pc = "idle"
    /\ ~sup_subscribed
    /\ \E reason_code \in {0, 5} : sup_subscribed' = (reason_code = 0)
    /\ UNCHANGED <<m_subscribed, award_bus, lost_in>>
    /\ UNCHANGED <<supVars, machVars>>

\* The Supervisor's connection is lost; the broker drops the subscription of
\* the session.  The Supervisor registers no on_disconnect callback.
SupConnectionLost ==
    /\ sup_subscribed
    /\ sup_subscribed' = FALSE
    /\ lost_in' = IF collecting_bids THEN current_job.job_id ELSE lost_in
    /\ UNCHANGED <<m_subscribed, award_bus>>
    /\ UNCHANGED <<supVars, machVars>>

\* Machine._on_connect: with reason_code 0 it subscribes cfp_topic,
\* award_topic and reject_topic; it writes no field.  Machine.run connects
\* as soon as the Machine is constructed.
MachineOnConnect(m) ==
    /\ mcb_pc[m] = "idle"
    /\ ~m_subscribed[m]
    /\ \E reason_code \in {0, 5} :
          m_subscribed' = [m_subscribed EXCEPT ![m] = (reason_code = 0)]
    /\ UNCHANGED <<sup_subscribed, award_bus, lost_in>>
    /\ UNCHANGED <<supVars, machVars>>

\* The connection of Machine m is lost; the Machine registers no
\* on_disconnect callback.
MachineConnectionLost(m) ==
    /\ m_subscribed[m]
    /\ m_subscribed' = [m_subscribed EXCEPT ![m] = FALSE]
    /\ UNCHANGED <<sup_subscribed, award_bus, lost_in>>
    /\ UNCHANGED <<supVars, machVars>>

\* ---------------------------------------------------------------- Next
\* The bus delivers any message on the Supervisor's bid topic.
Deliver ==
    /\ sup_subscribed
    /\ \E msg \in Inbound(jobs_created) : OnMessage(msg)

Next ==
    \/ SupRun
    \/ GenerateJob
    \/ SetCurrentJob
    \/ ResetBids
    \/ OpenCollection
    \/ SendCfp
    \/ CloseCollection
    \/ SelectWinner
    \/ PublishAward
    \/ PublishRejections
    \/ CountFailed
    \/ ClearCurrentJob
    \/ IntervalElapses
    \/ LoopExit
    \/ SupStop
    \/ SupOnConnect
    \/ Deliver
    \/ OnMessageParse
    \/ OnMessageAppend

Spec == Init /\ [][Next]_vars

\* The steps of _run_auction.  The auction thread takes no lock that is
\* held for longer than one append and its sleeps end, so a step of it that
\* stays possible is eventually taken.
RunAuction ==
    \/ SetCurrentJob
    \/ ResetBids
    \/ OpenCollection
    \/ SendCfp
    \/ CloseCollection
    \/ SelectWinner
    \/ PublishAward
    \/ PublishRejections
    \/ CountFailed
    \/ ClearCurrentJob

\* A running Supervisor that nobody stops, under any stream of replies.  No
\* step of the Supervisor tests the timestamp of a Bid, so for its progress
\* one timestamp stands for all.
DeliverReply ==
    /\ sup_subscribed
    /\ \E msg \in Inbound(jobs_created) :
          /\ msg.type = "bid" => msg.timestamp = 1
          /\ OnMessage(msg)

LiveNext ==
    \/ SupRun
    \/ GenerateJob
    \/ RunAuction
    \/ IntervalElapses
    \/ SupOnConnect
    \/ DeliverReply
    \/ OnMessageParse
    \/ OnMessageAppend

FairSpec == Init /\ [][LiveNext]_vars /\ WF_vars(RunAuction)

\* Number of messages Machine m has handled that left a trace: the awards
\* it accepted, the rejects it counted and the cfps it replied to.
Handled(m) ==
    jobs_won[m] + jobs_rejected[m]
    + Len(SelectSeq(m_published[m], LAMBDA p : p.topic[1] = "jobs/bid"))

\* The Machines share no state, so one of them is put under an arbitrary
\* bus: machine_001, which can perform job_A and cannot perform job_D.
UnderTest(m) ==
    /\ m = "machine_001"
    /\ Handled(m) < MaxDeliveries

\* The Machine under test connects.
ConnectUnderTest ==
    \E m \in Machines : m = "machine_001" /\ MachineOnConnect(m)

\* The bus delivers any cfp, award or reject to the Machine under test.
DeliverCfp ==
    \E m \in Machines, data \in CfpPayloads :
        /\ UnderTest(m) /\ m_subscribed[m]
        /\ HandleCfp(m, data)
        /\ UNCHANGED linkVars
DeliverAward ==
    \E m \in Machines, data \in AwardPayloads :
        /\ UnderTest(m) /\ m_subscribed[m]
        /\ HandleAward(m, data)
        /\ UNCHANGED linkVars
DeliverReject ==
    \E m \in Machines, data \in RejectPayloads :
        /\ UnderTest(m) /\ m_subscribed[m]
        /\ HandleReject(m, data)
        /\ UNCHANGED linkVars
AwardStart ==
    \E m \in Machines : HandleAwardStart(m) /\ UNCHANGED linkVars
JobEnds ==
    \E m \in Machines : \E t \in executions[m] :
        ExecuteJobEnds(m, t) /\ UNCHANGED linkVars
JobClear ==
    \E m \in Machines : \E t \in executions[m] :
        ExecuteJobClear(m, t) /\ UNCHANGED linkVars
JobLoad ==
    \E m \in Machines : \E t \in executions[m] :
        ExecuteJobLoad(m, t) /\ UNCHANGED linkVars
JobStore ==
    \E m \in Machines : \E t \in executions[m] :
        ExecuteJobStore(m, t) /\ UNCHANGED linkVars

MachineNext ==
    \/ ConnectUnderTest
    \/ DeliverCfp
    \/ DeliverAward
    \/ DeliverReject
    \/ AwardStart
    \/ JobEnds
    \/ JobClear
    \/ JobLoad
    \/ JobStore

MachineSpec == Init /\ [][MachineNext]_vars

\* ----------------------------------------------------------------- bus
\* The Supervisor and the Machines joined by the broker: what one agent
\* published on a topic is handed to the agents subscribed to it, each
\* message at most once to each subscriber and in any order, while the
\* Supervisor still runs the auction the message belongs to.  A Machine's
\* clock reads the same on every Bid: nothing in the system tests a timestamp
\* unless two proposed times are equal, and the two Machines' never are.  Of
\* an execution only the step that ends the job is followed: the steps after
\* it write fields and publish a notice that no other agent reads.

\* Machine m has replied to the CFP of job id j.
Replied(m, j) ==
    \E i \in 1..Len(m_published[m]) :
        /\ m_published[m][i].topic = <<"jobs/bid", supervisor_id>>
        /\ m_published[m][i].payload.job_id = j

\* Machine m has taken up the award of job id j.
TakenUp(m, j) ==
    \/ \E t \in executions[m] : t.job_id = j
    \/ \E i \in 1..Len(m_published[m]) :
          /\ m_published[m][i].payload.type = "completion"
          /\ m_published[m][i].payload.job_id = j

\* The Supervisor's callback has the Bid b in hand or in the bid list.
Received(b) ==
    \/ cb_bid = b
    \/ \E k \in 1..Len(bids) : bids[k] = b

\* A CFP on jobs/cfp reaches a Machine (subscribed in Machine._on_connect).
BusCfp ==
    \E m \in Machines, i \in 1..Len(sup_published) :
        /\ m_subscribed[m]
        /\ sup_published[i].topic = <<"jobs/cfp">>
        /\ ~Replied(m, sup_published[i].payload.job_id)
        /\ HandleCfp(m, sup_published[i].payload)
        /\ UNCHANGED linkVars
        /\ \A k \in 1..Len(m_published'[m]) :
              m_published'[m][k].payload.type = "bid"
                  => m_published'[m][k].payload.timestamp = 1

\* A Bid or Rejection on jobs/bid/<supervisor_id> reaches the Supervisor.
\* A Rejection leaves no trace there, so it may be handed over again, which
\* changes nothing.
BusReply ==
    \E m \in Machines : \E i \in 1..Len(m_published[m]) :
        /\ sup_subscribed
        /\ m_published[m][i].topic = <<"jobs/bid", supervisor_id>>
        /\ m_published[m][i].payload.type = "bid"
              => ~Received(Bid(m_published[m][i].payload))
        /\ OnMessage(m_published[m][i].payload)

\* An award on jobs/award/<machine_id> reaches that Machine.
BusAward ==
    \E m \in Machines, i \in 1..Len(sup_published) :
        /\ m_subscribed[m]
        /\ sup_published[i].topic = <<"jobs/award", m>>
        /\ ~TakenUp(m, sup_published[i].payload.job_id)
        /\ HandleAward(m, sup_published[i].payload)
        /\ UNCHANGED linkVars

\* A Machine connects.
BusConnect == \E m \in Machines : MachineOnConnect(m)

SystemNext ==
    \/ SupRun
    \/ GenerateJob
    \/ RunAuction
    \/ IntervalElapses
    \/ SupOnConnect
    \/ BusConnect
    \/ BusCfp
    \/ BusReply
    \/ OnMessageParse
    \/ OnMessageAppend
    \/ BusAward
    \/ AwardStart
    \/ JobEnds

SystemSpec == Init /\ [][SystemNext]_vars

\* ------------------------------------------------------------ slow bus
\* The same system on a bus that keeps no order between topics: an award
\* the broker accepted is handed to its Machine at any later moment, also
\* after CFPs the Supervisor published later.

\* The broker accepts an award published on jobs/award/<machine_id> for
\* the Machine subscribed to that topic.
BusAccept ==
    \E m \in Machines, i \in 1..Len(sup_published) :
        /\ m_subscribed[m]
        /\ sup_published[i].topic = <<"jobs/award", m>>
        /\ sup_published[i].payload \notin award_bus
        /\ mcb_msg[m] # sup_published[i].payload
        /\ ~TakenUp(m, sup_published[i].payload.job_id)
        /\ award_bus' = award_bus \cup {sup_published[i].payload}
        /\ UNCHANGED <<sup_subscribed, m_subscribed, lost_in>>
        /\ UNCHANGED <<supVars, machVars>>

\* An award the broker holds reaches its Machine.
BusHandOver ==
    \E m \in Machines, data \in award_bus :
        /\ m_subscribed[m]
        /\ data.machine_id = m
        /\ HandleAward(m, data)
        /\ award_bus' = award_bus \ {data}
        /\ UNCHANGED <<sup_subscribed, m_subscribed, lost_in>>

SlowBusNext ==
    \/ SupRun
    \/ GenerateJob
    \/ RunAuction
    \/ IntervalElapses
    \/ SupOnConnect
    \/ BusConnect
    \/ BusCfp
    \/ BusReply
    \/ OnMessageParse
    \/ OnMessageAppend
    \/ BusAccept
    \/ BusHandOver
    \/ AwardStart
    \/ JobEnds

SlowBusSpec == Init /\ [][SlowBusNext]_vars

\* -------------------------------------------------------- repeating bus
\* The same system on a bus that delivers at least once: an award a Machine
\* has taken up is handed to it once more, as long as the Machine has not
\* handled MaxDeliveries messages.
BusAwardAgain ==
    \E m \in Machines, i \in 1..Len(sup_published) :
        /\ m_subscribed[m]
        /\ sup_published[i].topic = <<"jobs/award", m>>
        /\ TakenUp(m, sup_published[i].payload.job_id)
        /\ Handled(m) < MaxDeliveries
        /\ HandleAward(m, sup_published[i].payload)
        /\ UNCHANGED linkVars

RepeatBusNext ==
    \/ SupRun
    \/ GenerateJob
    \/ RunAuction
    \/ IntervalElapses
    \/ SupOnConnect
    \/ BusConnect
    \/ BusCfp
    \/ BusReply
    \/ OnMessageParse
    \/ OnMessageAppend
    \/ BusAward
    \/ BusAwardAgain
    \/ AwardStart
    \/ JobEnds

RepeatBusSpec == Init /\ [][RepeatBusNext]_vars

\* ------------------------------------------------------------ payloads
\* A running Supervisor and the Machines under whatever is published on the
\* topics they subscribe to: replies inside and outside the Bid and Rejection
\* schemas on jobs/bid/<supervisor_id>, for any job id so far and for none,
\* and payloads that are no cfp, award or reject on the Machines' topics.
Replies(ids) ==
    OutOfSchemaPayloads(ids)
    \cup [type : {"bid"}, machine_id : {"machine_003"}, job_id : ids,
          proposed_time : {6}, timestamp : {1}]
    \cup [type : {"rejection"}, machine_id : {"machine_003"}, job_id : ids,
          reason : {"Machine is busy"}]

DeliverPayload ==
    /\ sup_subscribed
    /\ \E msg \in Replies(0..jobs_created) : OnMessage(msg)

DeliverOther ==
    \E m \in Machines, data \in {NotJson, JsonList, [job_id |-> 1]} :
        /\ m_subscribed[m]
        /\ HandleOther(m, data)
        /\ UNCHANGED linkVars

PayloadNext ==
    \/ SupRun
    \/ GenerateJob
    \/ RunAuction
    \/ IntervalElapses
    \/ SupOnConnect
    \/ BusConnect
    \/ DeliverPayload
    \/ OnMessageParse
    \/ OnMessageAppend
    \/ DeliverOther

PayloadSpec == Init /\ [][PayloadNext]_vars

\* ------------------------------------------------------------ lost links
\* A running Supervisor and the Machine under test on connections that are
\* lost and made again at any moment: a lost connection hands over nothing,
\* and the client's network loop reconnects by itself, which runs
\* _on_connect again.  The Supervisor is handed the Bids of one Machine,
\* and the Machine under test one award, which keeps it busy.
LinkReply ==
    /\ sup_subscribed
    /\ \E j \in 1..jobs_created :
          OnMessage(BidOf("machine_001", j, capabilities["machine_001"].job_A, 1))

LinkAward ==
    \E m \in Machines, data \in AwardPayloads :
        /\ m = "machine_001" /\ data.machine_id = m /\ data.job_type = "job_A"
        /\ m_subscribed[m]
        /\ jobs_won[m] = 0
        /\ HandleAward(m, data)
        /\ UNCHANGED linkVars

LostUnderTest ==
    \E m \in Machines : m = "machine_001" /\ MachineConnectionLost(m)

LinkNext ==
    \/ SupRun
    \/ GenerateJob
    \/ RunAuction
    \/ IntervalElapses
    \/ SupOnConnect
    \/ SupConnectionLost
    \/ LinkReply
    \/ OnMessageParse
    \/ OnMessageAppend
    \/ ConnectUnderTest
    \/ LostUnderTest
    \/ LinkAward
    \/ AwardStart

LinkSpec == Init /\ [][LinkNext]_vars

\* ================================================================ claims
\* The payloads of type ty the Supervisor published in the running auction.
Published(ty) ==
    SelectSeq(sup_published, LAMBDA p : p.payload.type = ty)

\* The smallest proposed_time of a non-empty bid list.
MinProposedTime(bs) ==
    CHOOSE t \in {bs[k].proposed_time : k \in 1..Len(bs)} :
        \A k \in 1..Len(bs) : t <= bs[k].proposed_time

\* C1: in every auction at most one Award is published, and its machine_id
\* is that of a Bid with the minimum proposed_time among the Bids that were
\* in the bid set when the deadline elapsed (collecting_bids set to False).
C1_AwardToMinimumOfAdmitted ==
    /\ Len(Published("award")) <= 1
    /\ \A i \in 1..Len(Published("award")) :
         \E k \in 1..Len(bids_at_deadline) :
            /\ bids_at_deadline[k].machine_id = Published("award")[i].payload.machine_id
            /\ bids_at_deadline[k].proposed_time = MinProposedTime(bids_at_deadline)

\* What _run_auction publishes when the bid list stays bs from the deadline
\* on: the CFP, then nothing for an empty list, else the Award and the
\* Rejections.
OutcomeOf(bs, j) ==
    <<Publish(<<"jobs/cfp">>, Cfp(j))>> \o
    (IF bs = <<>> THEN <<>>
     ELSE <<Publish(<<"jobs/award", select_winner(bs).machine_id>>,
                    Award(select_winner(bs), j))>>
          \o Rejections(bs, select_winner(bs), j))

\* C2: a Bid or Rejection whose handling completes after the deadline
\* transition never changes the outcome: when the auction has concluded, the
\* winner, the Award and the Rejections are those of the bid set as it was
\* when collecting_bids was set to False.
C2_LateMessageNeverChangesOutcome ==
    sup_pc = "clear_job" =>
        /\ winner = select_winner(bids_at_deadline)
        /\ sup_published = OutcomeOf(bids_at_deadline, job)

\* The positions of bs that hold the minimum proposed_time and, among
\* these, the earliest timestamp.
TieBreakCandidates(bs) ==
    LET fastest == {k \in 1..Len(bs) : bs[k].proposed_time = MinProposedTime(bs)}
    IN  {k \in fastest : \A l \in fastest : bs[k].timestamp <= bs[l].timestamp}

\* C3: among the admitted Bids with the minimum proposed_time the one with
\* the earlier timestamp wins, whatever the arrival order, and among those
\* equal in timestamp too the one that entered the bid set first: the winner
\* is the first of the bid list _select_winner read that has the minimum
\* proposed_time and, among these, the earliest timestamp.
C3_TieBreakByTimestampThenArrival ==
    sup_pc \in {"award", "rejects", "clear_job"} /\ winner # NoBid =>
        LET first == CHOOSE k \in TieBreakCandidates(bids_at_select) :
                        \A l \in TieBreakCandidates(bids_at_select) : k <= l
        IN  winner = bids_at_select[first]

\* Machine m is executing an awarded job: an _execute_job thread of it is
\* still in its sleep.
Executing(m) == \E t \in executions[m] : t.pc = "sleep"

\* A step taken while a job is executing sends no Bid.
NoBidSentWhileExecuting ==
    \A m \in Machines : Executing(m) => jobs_bid'[m] = jobs_bid[m]

\* C4: a Machine that is executing an awarded job never replies to a CFP
\* with a Bid: no step in which a job is still executing sends a Bid
\* (jobs_bid counts the Bids sent).
C4_NoBidWhileExecuting ==
    [][NoBidSentWhileExecuting]_vars

\* Machine m sent a Bid for job id j.
HasBidFor(m, j) ==
    \E i \in 1..Len(m_published[m]) :
        /\ m_published[m][i].payload.type = "bid"
        /\ m_published[m][i].payload.job_id = j

\* C5: an Award addressed to another machine id, or for a job id the
\* Machine never sent a Bid for, is ignored: whenever a Machine is accepting
\* an Award (past the check of _handle_award), the Award names the Machine
\* and a job the Machine has bid for.
C5_AwardForUnknownJobIgnored ==
    \A m \in Machines :
        mcb_pc[m] = "set_job" =>
            /\ mcb_msg[m].machine_id = m
            /\ HasBidFor(m, mcb_msg[m].job_id)

\* A step of a busy Machine whose callback thread is idle accepts no Award.
BusyIgnoresAward ==
    \A m \in Machines :
        busy[m] /\ mcb_pc[m] = "idle" =>
            /\ mcb_pc'[m] = "idle"
            /\ jobs_won'[m] = jobs_won[m]

\* C6: an Award that arrives while the Machine is busy is rejected silently:
\* the step that handles it leaves busy true and changes neither jobs_won
\* nor current_job, and starts no execution.
C6_AwardWhileBusyRejected ==
    [][BusyIgnoresAward]_vars

\* C7: a duplicate of the Award for the job a busy Machine is executing is
\* a no-op: no second execution of that job runs beside the first.
C7_DuplicateAwardIsNoOp ==
    \A m \in Machines :
        \A t1, t2 \in executions[m] :
            t1.pc = "sleep" /\ t2.pc = "sleep" /\ t1.job_id = t2.job_id
                => t1 = t2

\* The step that concludes an auction whose bid set was empty at the
\* deadline counts it as failed, with nothing but the CFP published.
ConcludesEmptyAsFailed ==
    sup_pc \in {"failed", "rejects"} /\ sup_pc' = "clear_job"
    /\ bids_at_deadline = <<>> =>
        /\ jobs_failed' = jobs_failed + 1
        /\ jobs_allocated' = jobs_allocated
        /\ sup_published' = OutcomeOf(<<>>, job)

\* C8: when no Bid was in the bid set at the deadline, the auction ends
\* FAILED: the step that concludes it adds one to jobs_failed, leaves
\* jobs_allocated alone, and no Award and no Rejection was published.
C8_NoBidMeansFailed ==
    [][ConcludesEmptyAsFailed]_vars

\* C9: a new CFP is never broadcast before the previous auction has
\* concluded: a CFP is the first message published since _run_auction was
\* entered, every message after it is for the CFP's job, and every job
\* before the CFP's has been counted as allocated or failed, which happens
\* only once its Award and Rejections are published.
C9_OneOpenAuction ==
    \A i \in 1..Len(sup_published) :
        sup_published[i].payload.type = "cfp" =>
            /\ i = 1
            /\ jobs_allocated + jobs_failed >= sup_published[i].payload.job_id - 1
            /\ \A k \in i..Len(sup_published) :
                  sup_published[k].payload.job_id = sup_published[i].payload.job_id

\* C9 happens: the CFP of the second job is out, after the first job was
\* awarded.
C9_Witness ==
    /\ Len(sup_published) = 1
    /\ sup_published[1].payload.type = "cfp"
    /\ sup_published[1].payload.job_id = 2
    /\ jobs_allocated = 1

\* C10: while an auction is collecting or being evaluated, every Bid in the
\* bid set carries the job_id of the current Job.
C10_BidsAreForCurrentJob ==
    collecting_bids \/ sup_pc \in {"select", "award", "rejects"} =>
        \A k \in 1..Len(bids) : bids[k].job_id = current_job.job_id

\* C11: once collecting_bids is set to False the bid set is not extended
\* again for that auction: the bid list _select_winner read is the bid list
\* as it was at the moment of the flip.
C11_BidSetFrozenAtFlip ==
    sup_pc \in {"award", "failed", "rejects", "clear_job"} =>
        bids_at_select = bids_at_deadline

\* The number of Rejections in log that went to the reject topic of m, and
\* the number of Bids of m in bs.
RejectsTo(log, m) ==
    Len(SelectSeq(log, LAMBDA p : /\ p.payload.type = "reject"
                                  /\ p.topic = <<"jobs/reject", m>>))
BidsOf(bs, m) == Len(SelectSeq(bs, LAMBDA b : b.machine_id = m))

\* The step that ends _send_award: the Award is already out, on the
\* winner's award topic, and the step adds Rejections for the job and nothing
\* else, to the winner none and to every other machine with a Bid in the
\* bid set at least one.
AwardThenRejections ==
    sup_pc = "rejects" /\ sup_pc' = "clear_job" =>
        /\ Len(sup_published) = 2
        /\ sup_published[2].topic = <<"jobs/award", winner.machine_id>>
        /\ sup_published[2].payload.type = "award"
        /\ sup_published[2].payload.job_id = job.job_id
        /\ Len(sup_published') >= 2
        /\ SubSeq(sup_published', 1, 2) = sup_published
        /\ \A i \in 3..Len(sup_published') :
              /\ sup_published'[i].payload.type = "reject"
              /\ sup_published'[i].payload.job_id = job.job_id
        /\ \A m \in Machines :
              IF m = winner.machine_id
              THEN RejectsTo(sup_published', m) = 0
              ELSE BidsOf(bids, m) > 0 <=> RejectsTo(sup_published', m) > 0

\* C12: when an auction has a winner the Award is published first, on the
\* winner's award topic, and only then a Rejection for that job id on the
\* reject topic of every other machine that has a Bid in the bid set.
C12_AwardBeforeRejections ==
    [][AwardThenRejections]_vars

\* C12 happens: an auction with Bids of both machines has published its
\* Award and a Rejection.
C12_Witness ==
    /\ sup_pc = "clear_job"
    /\ winner # NoBid
    /\ \A m \in Machines : BidsOf(bids, m) > 0
    /\ \E m \in Machines : RejectsTo(sup_published, m) > 0

\* A step taken after stop() publishes no Award and no Reject.
NoAwardOrRejectAfterStop ==
    ~running =>
        \A i \in 1..Len(sup_published') :
            i > Len(sup_published) =>
                sup_published'[i].payload.type \notin {"award", "reject"}

\* C13: after a shutdown request (stop() set running to False) the
\* Supervisor publishes no further Award or Reject, also when the request
\* arrives while an auction is waiting for its deadline.
C13_NoAwardOrRejectAfterStop ==
    [][NoAwardOrRejectAfterStop]_vars

\* C14: every auction that broadcast its CFP eventually leaves the
\* collecting state and is counted as allocated or failed, whatever arrives
\* on the bid topic, and the Supervisor is then idle in its inter-job wait.
C14_AuctionConcludes ==
    sup_pc = "wait_deadline"
        ~> (/\ sup_pc = "wait_interval"
            /\ ~collecting_bids
            /\ current_job = None
            /\ jobs_allocated + jobs_failed = jobs_created)

\* C14 happens: one auction has ended allocated and one failed, and the
\* Supervisor is in its inter-job wait.
C14_Witness ==
    /\ sup_pc = "wait_interval"
    /\ jobs_allocated = 1
    /\ jobs_failed = 1

\* C15: after either terminal branch the Supervisor is idle with the
\* current Job cleared and the bid set empty, throughout the inter-job wait.
C15_IdleWithJobAndBidsCleared ==
    sup_pc = "wait_interval" =>
        /\ ~collecting_bids
        /\ current_job = None
        /\ bids = <<>>

\* A step taken while the callback thread holds a Rejection it has not yet
\* examined: the thread does not go on to append, builds no Bid, and the
\* bid set gains nothing.
RejectionNotAdmitted ==
    cb_pc = "parse" /\ cb_msg.type = "rejection" =>
        /\ cb_pc' # "append"
        /\ cb_bid' = NoBid
        /\ bids' = bids \/ bids' = <<>>

\* C16: a Rejection sent by a Machine in reply to a CFP is never admitted
\* into the bid set, also when it arrives before the deadline with the
\* current job id: its handling ends without a Bid object and without an
\* append, so nothing of it reaches winner selection.
C16_RejectionNeverAdmitted ==
    [][RejectionNotAdmitted]_vars

\* C16 happens: the callback thread holds a Rejection for the current job
\* while the auction is collecting.
C16_Witness ==
    /\ cb_pc = "parse"
    /\ cb_msg.type = "rejection"
    /\ collecting_bids
    /\ sup_pc = "wait_deadline"
    /\ cb_msg.job_id = current_job.job_id

\* The machine with the strictly smallest duration for job type jt, among
\* machines that all have jt in their capability tables.
FastestAt(jt) ==
    CHOOSE m \in Machines :
        \A o \in Machines \ {m} : capabilities[m][jt] < capabilities[o][jt]

\* Every machine has a Bid for the running auction's job in bs.
AllHaveBid(bs) ==
    \A m \in Machines :
        \E k \in 1..Len(bs) :
            bs[k].machine_id = m /\ bs[k].job_id = job.job_id

C18_NoCapableMachineMeansFailed ==
    job # None /\ (\A m \in Machines : job.job_type \notin DOMAIN capabilities[m]) =>
        /\ \A m \in Machines : \A i \in 1..Len(m_published[m]) :
              m_published[m][i].payload.job_id = job.job_id
                  => m_published[m][i].payload.type = "rejection"
        /\ sup_pc \in {"select", "failed", "clear_job"} => bids_at_deadline = <<>>
        /\ sup_pc \notin {"award", "rejects"}
        /\ Published("award") = <<>>

\* A step in which Machine m handles the CFP data adds exactly one message
\* to what m published, on the bid topic of the CFP's supervisor_id and
\* carrying m's id and the CFP's job id: a Rejection if m is busy or its
\* table lacks the job type, else a Bid with the table's duration; busy and
\* current_job stay as they are.
CfpGetsItsReply(m, data) ==
    HandleCfp(m, data) =>
        /\ Len(m_published'[m]) = Len(m_published[m]) + 1
        /\ SubSeq(m_published'[m], 1, Len(m_published[m])) = m_published[m]
        /\ LET reply == m_published'[m][Len(m_published'[m])]
           IN  /\ reply.topic = <<"jobs/bid", data.supervisor_id>>
               /\ reply.payload.machine_id = m
               /\ reply.payload.job_id = data.job_id
               /\ IF busy[m] \/ data.job_type \notin DOMAIN capabilities[m]
                    THEN reply.payload.type = "rejection"
                    ELSE /\ reply.payload.type = "bid"
                         /\ reply.payload.proposed_time =
                                capabilities[m][data.job_type]
        /\ \A o \in Machines \ {m} : m_published'[o] = m_published[o]
        /\ busy' = busy
        /\ m_current_job' = m_current_job

EveryCfpGetsItsReply ==
    \A m \in Machines, data \in CfpPayloads : CfpGetsItsReply(m, data)

\* C19: for every CFP a Machine handles it publishes exactly one reply on
\* the bid topic of the CFP's supervisor_id: a Rejection if it is busy or
\* cannot perform the job type, otherwise a Bid with its id, the job id and
\* its table's duration; busy and current_job are left unchanged.
C19_OneReplyPerCfp ==
    [][EveryCfpGetsItsReply]_vars

\* C19 happens: a Machine has replied to one CFP with a Bid and to another,
\* while busy, with a Rejection.
C19_Witness ==
    \E m \in Machines :
        /\ \E i \in 1..Len(m_published[m]) :
              m_published[m][i].payload.type = "bid"
        /\ \E i \in 1..Len(m_published[m]) :
              /\ m_published[m][i].payload.type = "rejection"
              /\ m_published[m][i].payload.reason = "Machine is busy"

\* C20: a Machine that accepted an Award is busy, with current_job the
\* awarded job id, at every moment until that job's execution ends.
C20_BusyUntilExecutionEnds ==
    \A m \in Machines :
        \A t \in executions[m] :
            t.pc = "sleep" => busy[m] /\ m_current_job[m] = t.job_id

\* Payload p is unparseable or out of schema: not JSON, JSON that is no
\* record, a record without a type, or a bid without its machine_id or its
\* proposed_time.
OutOfSchema(p) ==
    \/ Loads(p) # "dict"
    \/ "type" \notin DOMAIN p
    \/ p.type = "bid" /\ {"machine_id", "proposed_time"} \ DOMAIN p # {}

\* C21: a payload that is unparseable or out of schema is discarded by the
\* Supervisor's and by the Machine's _on_message: the handler raises no
\* fault and goes on to no change of the agent's state.  Stated for a
\* Supervisor whose current job is set, so that the fault of reading the job
\* id of an absent job is not counted here.
C21_MalformedPayloadDiscarded ==
    [][ /\ (cb_pc = "parse" /\ OutOfSchema(cb_msg) /\ current_job # None)
            => cb_pc' \in {"parse", "idle"}
        /\ \A m \in Machines : mcb_pc[m] = "idle" => mcb_pc'[m] # "fault"
      ]_vars

\* C22: a reply with the current job id whose type is neither "bid" nor
\* "rejection", or is absent, never enters the bid set: the handler does not
\* go on to append it.
C22_OnlyTypeBidAdmitted ==
    [][ ( /\ cb_pc = "parse"
          /\ Loads(cb_msg) = "dict"
          /\ \/ "type" \notin DOMAIN cb_msg
             \/ cb_msg.type \notin {"bid", "rejection"} )
        => cb_pc' # "append" ]_vars

\* C24: winner selection is reproducible: the outcome of an auction is the
\* one the sequence of Bids admitted to the bid set determines.  When the
\* auction has concluded, the winner, the Award and the Rejections are those
\* _select_winner and _send_award give for the bid list, as in a run that
\* admitted the same Bids in the same order before the deadline.
C24_SameBidsSameOutcome ==
    sup_pc = "clear_job" =>
        /\ winner = select_winner(bids)
        /\ sup_published = OutcomeOf(bids, job)

\* The run C24 compares with: both Bids admitted before the deadline, the
\* slower first, and the faster selected.
C24_OnTimeRun ==
    /\ sup_pc = "clear_job"
    /\ Len(bids) = 2
    /\ bids = bids_at_deadline
    /\ bids[1].proposed_time > bids[2].proposed_time
    /\ winner = bids[2]

\* Machine m counts a reject in this step.
CountsReject(m) == jobs_rejected'[m] # jobs_rejected[m]

\* C25: receipt of a reject by a Machine is informational only: the step
\* that handles it increments jobs_rejected by one, leaves busy,
\* current_job, jobs_bid, jobs_won and jobs_completed as they were, and
\* publishes nothing.
C25_RejectOnlyCounts ==
    [][\A m \in Machines : CountsReject(m) =>
          /\ jobs_rejected'[m] = jobs_rejected[m] + 1
          /\ busy'[m] = busy[m]
          /\ m_current_job'[m] = m_current_job[m]
          /\ jobs_bid'[m] = jobs_bid[m]
          /\ jobs_won'[m] = jobs_won[m]
          /\ jobs_completed'[m] = jobs_completed[m]
          /\ m_published'[m] = m_published[m]
          /\ executions'[m] = executions[m]
          /\ mcb_pc'[m] = mcb_pc[m]]_vars

\* A Machine that counted a reject while it is busy executing a job it won.
C25_Witness ==
    \E m \in Machines :
        /\ jobs_rejected[m] > 0
        /\ busy[m]
        /\ m_current_job[m] # 0
        /\ Executing(m)

\* The auction thread is inside an auction that has not yet been counted.
AuctionInProgress ==
    sup_pc \in {"set_job", "reset_bids", "open", "send_cfp", "wait_deadline",
                "select", "award", "rejects", "failed"}

\* A step that counts an auction counts it once: as allocated after exactly
\* one Award was published for it, or as failed after none was.
CountsOnce ==
    /\ jobs_allocated' # jobs_allocated =>
          /\ jobs_allocated' = jobs_allocated + 1
          /\ jobs_failed' = jobs_failed
          /\ AuctionInProgress /\ ~AuctionInProgress'
          /\ Len(Published("award")) = 1
    /\ jobs_failed' # jobs_failed =>
          /\ jobs_failed' = jobs_failed + 1
          /\ jobs_allocated' = jobs_allocated
          /\ AuctionInProgress /\ ~AuctionInProgress'
          /\ Len(Published("award")) = 0
    /\ AuctionInProgress /\ ~AuctionInProgress' =>
          jobs_allocated' + jobs_failed' = jobs_allocated + jobs_failed + 1

C29_HandlerNeverReadsAbsentJob ==
    cb_pc = "parse" => current_job # None

\* C30: collecting_bids being true implies current_job is set; collection
\* is opened only after current_job was set and the bid list emptied by the
\* auction thread, and current_job is cleared only after collection was
\* closed.
C30_CollectingImpliesCurrentJob ==
    /\ [](collecting_bids => current_job # None /\ current_job = job)
    /\ [][ /\ (collecting_bids' /\ ~collecting_bids) =>
                  (sup_pc = "open" /\ current_job # None)
           /\ (current_job' = None /\ current_job # None) =>
                  ~collecting_bids ]_vars

\* Collection is open for the second job while a Bid is being handled.
C30_Witness ==
    /\ collecting_bids
    /\ current_job.job_id = 2
    /\ cb_pc = "append"

\* Machine m receives an Award in this step while it is busy executing
\* another job.
AwardWhileExecutingAnother(m) ==
    /\ jobs_won'[m] # jobs_won[m]
    /\ busy[m]
    /\ \E t \in executions[m] :
          t.pc = "sleep" /\ t.job_id # mcb_msg'[m].job_id

\* C23: with one Supervisor and the Machines on a bus that hands every
\* message over at some later moment and keeps no order between topics, no
\* Machine ever receives an Award while it is busy executing another job.
C23_NoAwardWhileExecutingAnother ==
    [][\A m \in Machines : ~AwardWhileExecutingAnother(m)]_vars

\* C26: losing and regaining the connection leaves an agent where it was.
\* A step in which the Supervisor's subscription comes or goes (its connect
\* callback has run, or its connection was lost) changes none of
\* current_job, bids, collecting_bids, the counters or the positions of its
\* threads; a step in which a Machine's subscriptions come or go changes
\* none of busy, current_job, the counters, its callback's position or its
\* executions.
C26_ReconnectKeepsPosition ==
    [][ /\ sup_subscribed' # sup_subscribed =>
              UNCHANGED <<current_job, bids, collecting_bids, jobs_created,
                          jobs_allocated, jobs_failed, running, sup_pc, cb_pc>>
        /\ \A m \in Machines : m_subscribed'[m] # m_subscribed[m] =>
              /\ busy'[m] = busy[m]
              /\ m_current_job'[m] = m_current_job[m]
              /\ jobs_bid'[m] = jobs_bid[m]
              /\ jobs_won'[m] = jobs_won[m]
              /\ jobs_completed'[m] = jobs_completed[m]
              /\ jobs_rejected'[m] = jobs_rejected[m]
              /\ mcb_pc'[m] = mcb_pc[m]
              /\ executions'[m] = executions[m] ]_vars

\* The Supervisor lost its connection while collecting bids for the current
\* job, with a Bid already admitted, and has subscribed again; the Machine
\* under test is subscribed and busy.
C26_Witness ==
    /\ collecting_bids
    /\ lost_in = current_job.job_id
    /\ sup_subscribed
    /\ bids # <<>>
    /\ \E m \in Machines : m_subscribed[m] /\ busy[m] /\ m_current_job[m] # 0

\* C27: an auction whose Supervisor lost its connection during bid
\* collection fails at evaluation: when it has concluded, there is no
\* winner, no Award was published and the auction was counted as failed.
C27_LostConnectionMeansFailed ==
    sup_pc = "clear_job" /\ lost_in = job.job_id =>
        /\ winner = NoBid
        /\ Published("award") = <<>>

\* The auction concluded with an Award although the connection was lost
\* during its collection: the winner's Bid was in the bid set at the deadline.
C27_AwardAfterLoss ==
    /\ sup_pc = "clear_job"
    /\ lost_in = job.job_id
    /\ ~sup_subscribed
    /\ winner # NoBid
    /\ bids_at_deadline = bids
    /\ bids_at_select = bids
    /\ Len(Published("award")) = 1
    /\ jobs_allocated = 1

\* C31: when a Bid may be delivered more than once, the bid set still holds
\* at most one Bid per machine id in every auction, and no machine is sent
\* more than one Rejection for the auction.
C31_OneBidPerMachine ==
    \A m \in Machines :
        /\ BidsOf(bids, m) <= 1
        /\ RejectsTo(sup_published, m) <= 1

\* The step that ends _send_award rejects no Bid that is faster than the
\* winner's: every Bid of another machine in the list the reject loop reads
\* proposes at least the winner's time.
RejectsOnlySlowerBids ==
    sup_pc = "rejects" /\ sup_pc' = "clear_job" =>
        \A k \in 1..Len(bids) :
            bids[k].machine_id # winner.machine_id
                => bids[k].proposed_time >= winner.proposed_time

\* C32: in every auction no machine is sent a Rejection for a Bid whose
\* proposed_time is strictly smaller than that of the awarded Bid: the
\* Rejections of _send_award cover only Bids that were in the bid set when
\* _select_winner chose the winner.
C32_RejectionsOnlyForSelectionBids ==
    [][RejectsOnlySlowerBids]_vars

\* C33: in every auction the winning machine is never sent a Rejection for
\* the job it was awarded, however many Bids of it are in the bid set, and
\* every machine that is sent a Rejection has a Bid in the bid set of that
\* auction.
C33_WinnerNeverRejected ==
    \A i \in 1..Len(sup_published) :
        sup_published[i].payload.type = "reject" =>
            /\ winner # NoBid
            /\ sup_published[i].payload.job_id = job.job_id
            /\ sup_published[i].topic # <<"jobs/reject", winner.machine_id>>
            /\ \E m \in Machines :
                  /\ sup_published[i].topic = <<"jobs/reject", m>>
                  /\ BidsOf(bids, m) > 0

\* An auction has ended with its award and a Rejection, the winner's Bid
\* being the second of the bid list.
C33_Witness ==
    /\ sup_pc = "clear_job"
    /\ Len(bids) = 2
    /\ winner = bids[2]
    /\ Len(Published("award")) = 1
    /\ RejectsTo(sup_published, bids[1].machine_id) = 1

\* C34: while at least one awarded job's execution is still running, the
\* Machine is busy and current_job is the id of a job that is still
\* executing; busy is false only when no execution remains running.
C34_BusyWhileAnyExecutionRuns ==
    \A m \in Machines :
        Executing(m) =>
            /\ busy[m]
            /\ \E t \in executions[m] :
                  t.pc = "sleep" /\ t.job_id = m_current_job[m]

\* The Completion notices Machine m published.
Completions(m) ==
    Len(SelectSeq(m_published[m], LAMBDA p : p.payload.type = "completion"))

\* C35: jobs_completed never exceeds jobs_won, a Machine publishes no more
\* Completion notices than it accepted Awards, and once every execution it
\* started has finished, jobs_completed equals jobs_won.
C35_CompletedMatchesWon ==
    \A m \in Machines :
        /\ jobs_completed[m] <= jobs_won[m]
        /\ Completions(m) <= jobs_won[m]
        /\ (executions[m] = {} /\ mcb_pc[m] = "idle")
              => jobs_completed[m] = jobs_won[m]

\* C36: with one Supervisor and the Machines on a bus that may hand a
\* message over more than once, no Machine wins more jobs than it bid on:
\* jobs_won <= jobs_bid for every Machine in every state.
C36_WonAtMostBid ==
    \A m \in Machines : jobs_won[m] <= jobs_bid[m]

\* Machine m replied to the CFP of job id j with a Bid of the duration its
\* capability table gives for job type jt: it was idle and capable when it
\* handled that CFP.
BidAsTabled(m, j, jt) ==
    /\ jt \in DOMAIN capabilities[m]
    /\ \E i \in 1..Len(m_published[m]) :
          /\ m_published[m][i].payload.type = "bid"
          /\ m_published[m][i].payload.job_id = j
          /\ m_published[m][i].payload.proposed_time = capabilities[m][jt]

\* C37: a Job is only awarded to a Machine whose capability table contains
\* the Job's type and that was idle when it handled the Job's CFP, so that
\* it replied with a Bid; and no awarded Machine executes with the duration
\* used for job types absent from its table.
C37_AwardOnlyToCapableBidder ==
    /\ \A i \in 1..Len(sup_published) :
          sup_published[i].payload.type = "award" =>
              BidAsTabled(sup_published[i].payload.machine_id,
                          sup_published[i].payload.job_id,
                          sup_published[i].payload.job_type)
    /\ \A m \in Machines : \A t \in executions[m] :
          t.job_type \in DOMAIN capabilities[m]

====
